---- MODULE Spec2Model ----
(***************************************************************************)
(* Two FastAPI example applications:                                       *)
(*   dependencies/main.py  GET /user, whose handler view_user_profile      *)
(*                         receives the record of the provider get_user;   *)
(*   middleware/main.py    GET /, wrapped by the http middleware logger.   *)
(* A request is sent to one of the two applications.  Each line of logger  *)
(* is one step.  The middleware application's coroutines share one event   *)
(* loop: once a coroutine runs it keeps the loop until it awaits or ends,  *)
(* so another request's coroutine starts or resumes only while the loop    *)
(* is idle.  The dependencies application is another process.              *)
(* Clock readings are floats in the code and whole ticks here.             *)
(***************************************************************************)
EXTENDS Integers, Sequences, FiniteSets, TLC

\* Number of requests served, over both applications.
MaxReq == 2
\* Largest reading either clock can give; readings are 0..MaxTime.
MaxTime == 1

Reqs == 1..MaxReq
TimeVals == 0..MaxTime

\* An unset local or a value not yet produced is <<>>; a value v is <<v>>.
None == <<>>
Some(v) == <<v>>
Get(o) == o[1]

VARIABLES
    request,      \* request[r]: the request r carries, None before it arrives
    pc,           \* pc[r]: where request r stands in its application
    start_time,   \* logger's local start_time, per request
    end_time,     \* logger's local end_time, per request
    process_time, \* logger's local process_time, per request
    response,     \* logger's local response, per request
    user,         \* view_user_profile's parameter user, per request
    handled,      \* what call_next(request) produced for r
    returned,     \* what the application handed back for r
    calls,        \* number of times call_next was invoked for r
    log           \* standard output: the lines printed, in order

vars == <<request, pc, start_time, end_time, process_time, response, user,
          handled, returned, calls, log>>

-----------------------------------------------------------------------------
\* Requests

Apps == {"dependencies", "middleware"}
Methods == {"GET"}
Urls == { [path |-> "/", query |-> ""],
          [path |-> "/", query |-> "q=1"],
          [path |-> "/user", query |-> ""] }

Requests == [app : Apps, method : Methods, url : Urls]

\* str(request.url) without scheme and host: the path, then ?query if any.
UrlStr(url) == IF url.query = "" THEN url.path ELSE url.path \o "?" \o url.query

\* The handler registered for a method and path on an application.
Route(app, method, path) ==
    IF app = "dependencies" /\ method = "GET" /\ path = "/user" THEN "view_user_profile"
    ELSE IF app = "middleware" /\ method = "GET" /\ path = "/" THEN "home"
    ELSE "none"

\* A handler's returned dict is sent as a 200 JSON response.
JSONResponse(content) == [status |-> 200, body |-> content]

\* No route matches: the framework's own 404.
NotFoundResponse == [status |-> 404, body |-> [detail |-> "Not Found"]]

-----------------------------------------------------------------------------
\* dependencies/main.py

get_user == [user |-> "Francis Peter"]

\* A greeting that loses its closing "!".
view_user_profile_unclosed(u) == [message |-> "Hello " \o u.user]

view_user_profile(u) == [message |-> "Hello " \o u.user \o "!"]

-----------------------------------------------------------------------------
\* middleware/main.py

\* A handler that answers differently once a request has been served.
home_counting ==
    [message |-> IF \E q \in DOMAIN pc : pc[q] = "completed"
                 THEN "This endpoint has a middleware (again)"
                 ELSE "This endpoint has a middleware"]

home == [message |-> "This endpoint has a middleware"]

\* print(f"Request Received: {request.method} {request.url}")
ReceivedLine(r, req) ==
    [req |-> r, kind |-> "Request Received",
     text |-> "Request Received: " \o req.method \o " " \o UrlStr(req.url)]

\* print(f"Duration: {process_time}")
DurationLine(r, d) == [req |-> r, kind |-> "Duration", value |-> d]

\* The subtraction the other way round.
ProcessTime_swapped(s, e) == e - s

\* process_time = start_time - end_time
ProcessTime(s, e) == s - e

-----------------------------------------------------------------------------
Init ==
    /\ request = [r \in Reqs |-> None]
    /\ pc = [r \in Reqs |-> "not_started"]
    /\ start_time = [r \in Reqs |-> None]
    /\ end_time = [r \in Reqs |-> None]
    /\ process_time = [r \in Reqs |-> None]
    /\ response = [r \in Reqs |-> None]
    /\ user = [r \in Reqs |-> None]
    /\ handled = [r \in Reqs |-> None]
    /\ returned = [r \in Reqs |-> None]
    /\ calls = [r \in Reqs |-> 0]
    /\ log = <<>>

\* Requests are numbered in the order they arrive.
MayArrive(r) ==
    /\ pc[r] = "not_started"
    /\ \A q \in Reqs : q < r => pc[q] # "not_started"

\* Routing on the whole URL, query string included.
RouteOf_fullUrl(req) == Route(req.app, req.method, UrlStr(req.url))

RouteOf(req) == Route(req.app, req.method, req.url.path)

\* The lines of logger between which the coroutine holds the event loop.
MidSegment == {"line8", "line9", "line10", "line11", "line12", "line13"}

\* No coroutine of the middleware application is running: the loop may start
\* or resume one.
LoopIdle == \A q \in Reqs : pc[q] \notin MidSegment

-----------------------------------------------------------------------------
\* dependencies application: a request reaches its route directly.

\* Depends(get_user) is resolved before the handler runs.
DependsGetUser(r) ==
    /\ MayArrive(r)
    /\ \E req \in Requests :
          /\ req.app = "dependencies"
          /\ RouteOf(req) = "view_user_profile"
          /\ request' = [request EXCEPT ![r] = Some(req)]
    /\ user' = [user EXCEPT ![r] = Some(get_user)]
    /\ pc' = [pc EXCEPT ![r] = "resolved"]
    /\ UNCHANGED <<start_time, end_time, process_time, response, handled,
                   returned, calls, log>>

ViewUserProfile(r) ==
    /\ pc[r] = "resolved"
    /\ returned' = [returned EXCEPT
                      ![r] = Some(JSONResponse(view_user_profile(Get(user[r]))))]
    /\ user' = [user EXCEPT ![r] = None]
    /\ pc' = [pc EXCEPT ![r] = "completed"]
    /\ UNCHANGED <<request, start_time, end_time, process_time, response,
                   handled, calls, log>>

\* A path the dependencies application has no route for.
DependenciesNotFound(r) ==
    /\ MayArrive(r)
    /\ \E req \in Requests :
          /\ req.app = "dependencies"
          /\ RouteOf(req) = "none"
          /\ request' = [request EXCEPT ![r] = Some(req)]
    /\ returned' = [returned EXCEPT ![r] = Some(NotFoundResponse)]
    /\ pc' = [pc EXCEPT ![r] = "completed"]
    /\ UNCHANGED <<start_time, end_time, process_time, response, user,
                   handled, calls, log>>

-----------------------------------------------------------------------------
\* middleware application: every request enters logger first.

\* line 7
LoggerPrintReceived(r) ==
    /\ MayArrive(r)
    /\ LoopIdle
    /\ \E req \in Requests :
          /\ req.app = "middleware"
          /\ request' = [request EXCEPT ![r] = Some(req)]
          /\ log' = Append(log, ReceivedLine(r, req))
    /\ pc' = [pc EXCEPT ![r] = "line8"]
    /\ UNCHANGED <<start_time, end_time, process_time, response, user,
                   handled, returned, calls>>

\* start_time kept in one module-level variable that every request shares.
LoggerStartTime_shared(r) ==
    /\ pc[r] = "line8"
    /\ \E t \in TimeVals :
          start_time' = [q \in Reqs |->
                           IF q = r \/ start_time[q] # None THEN Some(t) ELSE None]
    /\ pc' = [pc EXCEPT ![r] = "line9"]
    /\ UNCHANGED <<request, end_time, process_time, response, user, handled,
                   returned, calls, log>>

\* line 8: start_time = time.time()
LoggerStartTime(r) ==
    /\ pc[r] = "line8"
    /\ \E t \in TimeVals : start_time' = [start_time EXCEPT ![r] = Some(t)]
    /\ pc' = [pc EXCEPT ![r] = "line9"]
    /\ UNCHANGED <<request, end_time, process_time, response, user, handled,
                   returned, calls, log>>

\* line 9, the call: call_next(request) starts the rest of the chain and
\* logger is suspended.
LoggerCallNext(r) ==
    /\ pc[r] = "line9"
    /\ calls' = [calls EXCEPT ![r] = @ + 1]
    /\ pc' = [pc EXCEPT ![r] = "downstream_running"]
    /\ UNCHANGED <<request, start_time, end_time, process_time, response,
                   user, handled, returned, log>>

\* The route handler home, reached through call_next.
Home(r) ==
    /\ pc[r] = "downstream_running"
    /\ LoopIdle
    /\ RouteOf(Get(request[r])) = "home"
    /\ handled' = [handled EXCEPT ![r] = Some(JSONResponse(home))]
    /\ pc' = [pc EXCEPT ![r] = "downstream_done"]
    /\ UNCHANGED <<request, start_time, end_time, process_time, response,
                   user, returned, calls, log>>

\* A path the middleware application has no route for: call_next gives the 404.
MiddlewareNotFound(r) ==
    /\ pc[r] = "downstream_running"
    /\ LoopIdle
    /\ RouteOf(Get(request[r])) = "none"
    /\ handled' = [handled EXCEPT ![r] = Some(NotFoundResponse)]
    /\ pc' = [pc EXCEPT ![r] = "downstream_done"]
    /\ UNCHANGED <<request, start_time, end_time, process_time, response,
                   user, returned, calls, log>>

\* logger with an except clause that answers 500 itself.
LoggerAwaitRaises_caught(r) ==
    /\ pc[r] = "downstream_running"
    /\ LoopIdle
    /\ start_time' = [start_time EXCEPT ![r] = None]
    /\ returned' = [returned EXCEPT
          ![r] = Some([status |-> 500, body |-> [detail |-> "Internal Server Error"]])]
    /\ pc' = [pc EXCEPT ![r] = "raised"]
    /\ UNCHANGED <<request, end_time, process_time, response, user, handled,
                   calls, log>>

\* The await of line 9 raises (the task is cancelled, the client is gone):
\* logger has no try, so its frame is unwound and the exception goes on.
LoggerAwaitRaises(r) ==
    /\ pc[r] = "downstream_running"
    /\ LoopIdle
    /\ start_time' = [start_time EXCEPT ![r] = None]
    /\ pc' = [pc EXCEPT ![r] = "raised"]
    /\ UNCHANGED <<request, end_time, process_time, response, user, handled,
                   returned, calls, log>>

\* logger calling call_next again when the first call has come back.
LoggerResume_retry(r) ==
    /\ pc[r] = "downstream_done"
    /\ LoopIdle
    /\ IF calls[r] < 2
       THEN /\ pc' = [pc EXCEPT ![r] = "line9"]
            /\ UNCHANGED response
       ELSE /\ pc' = [pc EXCEPT ![r] = "line10"]
            /\ response' = [response EXCEPT ![r] = handled[r]]
    /\ UNCHANGED <<request, start_time, end_time, process_time, user, handled,
                   returned, calls, log>>

\* line 9, the resumption: response = <what call_next gave>
LoggerResume(r) ==
    /\ pc[r] = "downstream_done"
    /\ LoopIdle
    /\ response' = [response EXCEPT ![r] = handled[r]]
    /\ pc' = [pc EXCEPT ![r] = "line10"]
    /\ UNCHANGED <<request, start_time, end_time, process_time, user, handled,
                   returned, calls, log>>

\* logger waiting, before line 10, for every other request in flight.
LoggerEndTime_waits(r) ==
    /\ pc[r] = "line10"
    /\ \A q \in Reqs : q # r => pc[q] \in {"not_started", "completed"}
    /\ \E t \in TimeVals : end_time' = [end_time EXCEPT ![r] = Some(t)]
    /\ pc' = [pc EXCEPT ![r] = "line11"]
    /\ UNCHANGED <<request, start_time, process_time, response, user, handled,
                   returned, calls, log>>

\* line 10: end_time = time.perf_counter()
LoggerEndTime(r) ==
    /\ pc[r] = "line10"
    /\ \E t \in TimeVals : end_time' = [end_time EXCEPT ![r] = Some(t)]
    /\ pc' = [pc EXCEPT ![r] = "line11"]
    /\ UNCHANGED <<request, start_time, process_time, response, user, handled,
                   returned, calls, log>>

\* line 11
LoggerProcessTime(r) ==
    /\ pc[r] = "line11"
    /\ process_time' = [process_time EXCEPT
          ![r] = Some(ProcessTime(Get(start_time[r]), Get(end_time[r])))]
    /\ pc' = [pc EXCEPT ![r] = "line12"]
    /\ UNCHANGED <<request, start_time, end_time, response, user, handled,
                   returned, calls, log>>

\* logger without its second print.
LoggerPrintDuration_silent(r) ==
    /\ pc[r] = "line12"
    /\ pc' = [pc EXCEPT ![r] = "line13"]
    /\ UNCHANGED <<request, start_time, end_time, process_time, response,
                   user, handled, returned, calls, log>>

\* line 12
LoggerPrintDuration(r) ==
    /\ pc[r] = "line12"
    /\ log' = Append(log, DurationLine(r, Get(process_time[r])))
    /\ pc' = [pc EXCEPT ![r] = "line13"]
    /\ UNCHANGED <<request, start_time, end_time, process_time, response,
                   user, handled, returned, calls>>

\* logger wrapping the body it got in a response of its own.
LoggerReturn_rewrapped(r) ==
    /\ pc[r] = "line13"
    /\ returned' = [returned EXCEPT ![r] = Some(JSONResponse(Get(response[r]).body))]
    /\ start_time' = [start_time EXCEPT ![r] = None]
    /\ end_time' = [end_time EXCEPT ![r] = None]
    /\ process_time' = [process_time EXCEPT ![r] = None]
    /\ response' = [response EXCEPT ![r] = None]
    /\ pc' = [pc EXCEPT ![r] = "completed"]
    /\ UNCHANGED <<request, user, handled, calls, log>>

\* line 13: return response; the frame and its locals are gone.
LoggerReturn(r) ==
    /\ pc[r] = "line13"
    /\ returned' = [returned EXCEPT ![r] = response[r]]
    /\ start_time' = [start_time EXCEPT ![r] = None]
    /\ end_time' = [end_time EXCEPT ![r] = None]
    /\ process_time' = [process_time EXCEPT ![r] = None]
    /\ response' = [response EXCEPT ![r] = None]
    /\ pc' = [pc EXCEPT ![r] = "completed"]
    /\ UNCHANGED <<request, user, handled, calls, log>>

-----------------------------------------------------------------------------
Next ==
    \E r \in Reqs :
        \/ DependsGetUser(r)
        \/ ViewUserProfile(r)
        \/ DependenciesNotFound(r)
        \/ LoggerPrintReceived(r)
        \/ LoggerStartTime(r)
        \/ LoggerCallNext(r)
        \/ Home(r)
        \/ MiddlewareNotFound(r)
        \/ LoggerAwaitRaises(r)
        \/ LoggerResume(r)
        \/ LoggerEndTime(r)
        \/ LoggerProcessTime(r)
        \/ LoggerPrintDuration(r)
        \/ LoggerReturn(r)

Spec == Init /\ [][Next]_vars

-----------------------------------------------------------------------------
\* Vocabulary of the properties

\* The lines request r printed, in the order they reached standard output.
LogOf(r) == SelectSeq(log, LAMBDA e : e.req = r)
KindsOf(r) == [i \in 1..Len(LogOf(r)) |-> LogOf(r)[i].kind]
DurationsOf(r) == SelectSeq(LogOf(r), LAMBDA e : e.kind = "Duration")

Arrived(r) == request[r] # None
ToApp(r, app) == Arrived(r) /\ Get(request[r]).app = app
IsGet(r, app, path) ==
    /\ ToApp(r, app)
    /\ Get(request[r]).method = "GET"
    /\ Get(request[r]).url.path = path

HelloFrancisPeter == [status |-> 200, body |-> [message |-> "Hello Francis Peter!"]]
HasAMiddleware == [status |-> 200, body |-> [message |-> "This endpoint has a middleware"]]

-----------------------------------------------------------------------------
\* C1: every request that has passed through logger printed exactly one
\* "Request Received" line and exactly one "Duration" line, in that order;
\* while it is on its way it has printed the first line alone.
C1_OneReceivedThenOneDuration ==
    \A r \in Reqs :
        ToApp(r, "middleware") =>
            /\ KindsOf(r) \in { <<"Request Received">>,
                                <<"Request Received", "Duration">> }
            /\ pc[r] = "completed" => KindsOf(r) = <<"Request Received", "Duration">>

C1_Witness ==
    \E r \in Reqs : ToApp(r, "middleware") /\ pc[r] = "completed"

\* C2: every GET /user is answered 200 {"message": "Hello Francis Peter!"},
\* and a GET /user is never in an error state.
C2_UserAlwaysHello ==
    \A r \in Reqs :
        IsGet(r, "dependencies", "/user") =>
            /\ pc[r] \in {"resolved", "completed"}
            /\ pc[r] = "resolved" => user[r] = Some([user |-> "Francis Peter"])
            /\ pc[r] = "completed" => returned[r] = Some(HelloFrancisPeter)

C2_Witness ==
    \E r \in Reqs : IsGet(r, "dependencies", "/user") /\ pc[r] = "completed"

\* C3: every GET / that comes back from the middleware application is
\* answered 200 {"message": "This endpoint has a middleware"}, whatever the
\* query string and whatever the two clock readings were.
C3_HomeAlwaysSame ==
    \A r \in Reqs :
        IsGet(r, "middleware", "/") /\ pc[r] = "completed" =>
            returned[r] = Some(HasAMiddleware)

\* Two answered GET / with different query strings and different durations.
C3_Witness ==
    \E r, q \in Reqs :
        /\ IsGet(r, "middleware", "/") /\ pc[r] = "completed"
        /\ IsGet(q, "middleware", "/") /\ pc[q] = "completed"
        /\ Get(request[r]).url.query # Get(request[q]).url.query
        /\ DurationsOf(r)[1].value # DurationsOf(q)[1].value

\* C4: what logger returns is what call_next gave it, status and body.
C4_ResponseUnmodified ==
    \A r \in Reqs :
        ToApp(r, "middleware") /\ pc[r] = "completed" =>
            /\ handled[r] # None
            /\ returned[r] = handled[r]

\* Both kinds of downstream response have gone through logger.
C4_Witness ==
    \E r, q \in Reqs :
        /\ ToApp(r, "middleware") /\ pc[r] = "completed"
        /\ ToApp(q, "middleware") /\ pc[q] = "completed"
        /\ Get(handled[r]).status = 200
        /\ Get(handled[q]).status = 404

\* C5: two answered requests for the same method and path of the same
\* application have the same status and the same body, whichever came first
\* and whatever was served in between.
C5_Idempotent ==
    \A r, q \in Reqs :
        /\ pc[r] = "completed" /\ pc[q] = "completed"
        /\ Get(request[r]).app = Get(request[q]).app
        /\ Get(request[r]).method = Get(request[q]).method
        /\ Get(request[r]).url.path = Get(request[q]).url.path
        => /\ Get(returned[r]).status = Get(returned[q]).status
           /\ Get(returned[r]).body = Get(returned[q]).body

C5_Witness ==
    \E r, q \in Reqs :
        /\ r < q
        /\ IsGet(r, "middleware", "/") /\ IsGet(q, "middleware", "/")
        /\ pc[q] = "completed" /\ pc[r] = "completed"
        /\ log[Len(log)].req = r

\* C6, as the specification states it: every logged duration is negative.
C6_DurationNegative ==
    \A i \in 1..Len(log) : log[i].kind = "Duration" => log[i].value < 0

\* C6, amended: the logged duration is the reading of time.time() at line 8
\* minus the reading of time.perf_counter() at line 10, not the negative of
\* that difference; it is negative exactly when the second reading is the
\* larger one.
C6_DurationIsStartMinusEnd ==
    \A r \in Reqs :
        pc[r] = "line13" =>
            /\ Len(DurationsOf(r)) = 1
            /\ DurationsOf(r)[1].value = Get(start_time[r]) - Get(end_time[r])
            /\ DurationsOf(r)[1].value < 0 <=> Get(start_time[r]) < Get(end_time[r])

\* A positive duration has been logged.
C6_Witness ==
    \E r \in Reqs :
        /\ pc[r] = "line13"
        /\ Get(start_time[r]) > Get(end_time[r])
        /\ DurationsOf(r)[1].value > 0

\* The order of logger's steps; the only other way out of the await is the
\* exception of C9.
LoggerOrder ==
    { <<"not_started", "line8">>, <<"line8", "line9">>,
      <<"line9", "downstream_running">>,
      <<"downstream_running", "downstream_done">>,
      <<"downstream_done", "line10">>, <<"line10", "line11">>,
      <<"line11", "line12">>, <<"line12", "line13">>,
      <<"line13", "completed">>, <<"downstream_running", "raised">> }

BeforeCallNext == {"not_started", "line8", "line9"}

C7_Positions ==
    \A r \in Reqs :
        ~ToApp(r, "dependencies") =>
            /\ calls[r] = IF pc[r] \in BeforeCallNext THEN 0 ELSE 1
            /\ pc[r] = "downstream_running" =>
                   /\ KindsOf(r) = <<"Request Received">>
                   /\ start_time[r] # None
                   /\ end_time[r] = None
            /\ (end_time[r] # None \/ Len(DurationsOf(r)) > 0) =>
                   /\ calls[r] = 1
                   /\ handled[r] # None

\* C7: a request moves through logger in one fixed order and never back;
\* call_next is invoked once, after the "Request Received" line and the start
\* timestamp; the end timestamp and the "Duration" line come only after
\* call_next has produced its response.
C7_StateMachine ==
    /\ []C7_Positions
    /\ [][\A r \in Reqs :
            (pc[r]' # pc[r] /\ ~ToApp(r, "dependencies")') =>
                /\ <<pc[r], pc[r]'>> \in LoggerOrder
                /\ calls[r]' # calls[r] <=> pc[r] = "line9"]_vars

C7_Witness ==
    \E r \in Reqs :
        /\ ToApp(r, "middleware") /\ pc[r] = "completed" /\ calls[r] = 1

\* Everything that belongs to request r alone.
Frame(r) ==
    <<request[r], pc[r], start_time[r], end_time[r], process_time[r],
      response[r], user[r], handled[r], returned[r], calls[r], LogOf(r)>>

\* What the chain behind logger answers to a request.
Downstream(req) ==
    IF RouteOf(req) = "home" THEN HasAMiddleware ELSE NotFoundResponse

C8_OwnValues ==
    \A r \in Reqs :
        ToApp(r, "middleware") =>
            /\ handled[r] # None => handled[r] = Some(Downstream(Get(request[r])))
            /\ response[r] # None => response[r] = handled[r]
            /\ pc[r] = "line13" =>
                   DurationsOf(r)[1].value =
                       ProcessTime(Get(start_time[r]), Get(end_time[r]))

\* C8: a step of one request leaves every other request's locals, response
\* and log lines as they were, so each request, resumed in whatever order,
\* gets the downstream response of its own request and logs the duration of
\* its own two readings.
C8_Independent ==
    /\ []C8_OwnValues
    /\ [][\A r, q \in Reqs :
            (r # q /\ Frame(r)' # Frame(r)) => Frame(q)' = Frame(q)]_vars

\* Two requests suspended at the await together, with different start
\* readings; the later one is resumed first.
C8_Witness ==
    \E r, q \in Reqs :
        /\ r < q
        /\ pc[r] = "downstream_done" /\ pc[q] = "line13"
        /\ start_time[r] # start_time[q]
        /\ Get(request[r]).url # Get(request[q]).url

C9_AtRaise ==
    \A r \in Reqs :
        pc[r] = "raised" =>
            /\ KindsOf(r) = <<"Request Received">>
            /\ response[r] = None
            /\ returned[r] = None

\* C9: when the await of call_next raises, the "Request Received" line is
\* out, no "Duration" line is or will be printed, logger returns no response,
\* and nothing of the request changes afterwards: the exception is the
\* framework's to handle.
C9_FailurePropagates ==
    /\ []C9_AtRaise
    /\ [][\A r \in Reqs : pc[r] = "raised" => Frame(r)' = Frame(r)]_vars

\* A request has failed and another has since been answered.
C9_Witness ==
    \E r, q \in Reqs :
        /\ pc[r] = "raised"
        /\ r < q /\ ToApp(q, "middleware") /\ pc[q] = "completed"

-----------------------------------------------------------------------------
\* The event loop runs every coroutine that is ready, and the chain behind
\* call_next runs to its end unless the await raises.
LoggerStep(r) ==
    \/ LoggerStartTime(r)
    \/ LoggerCallNext(r)
    \/ LoggerResume(r)
    \/ LoggerEndTime(r)
    \/ LoggerProcessTime(r)
    \/ LoggerPrintDuration(r)
    \/ LoggerReturn(r)

DownstreamStep(r) == Home(r) \/ MiddlewareNotFound(r) \/ LoggerAwaitRaises(r)

LiveSpec ==
    /\ Spec
    /\ \A r \in Reqs : WF_vars(LoggerStep(r) \/ DownstreamStep(r))

\* The positions of a request that is inside logger.
InLogger == MidSegment \cup {"downstream_running", "downstream_done"}

\* C10: no request stays inside logger for ever: a request that has entered
\* comes out answered with a response, or because the await of call_next
\* raised.
C10_Terminates ==
    \A r \in Reqs :
        []<>(/\ pc[r] \notin InLogger
             /\ pc[r] = "completed" => returned[r] # None)

\* Two requests were in logger together and both have been answered.
C10_Witness ==
    \E r, q \in Reqs :
        /\ r < q
        /\ ToApp(r, "middleware") /\ pc[r] = "completed" /\ returned[r] # None
        /\ ToApp(q, "middleware") /\ pc[q] = "completed" /\ returned[q] # None
        /\ log[2].req = q

====
